---- MODULE Spec2Model ----
(***************************************************************************)
(* A model of swiftreq's request-execution core:                           *)
(*   - the retry middleware (middlewares/retry: RetryHandler.shouldRetry,  *)
(*     RetryMiddleware, the backoff functions),                            *)
(*   - the pipeline composer (RequestExecutor and its configuration        *)
(*     methods) and a request's walk through the composed handler,         *)
(*   - the caching middleware and the go-cache store behind it,            *)
(*   - the token refresher: its goroutine, the callers of Get and the      *)
(*     authorization middleware,                                           *)
(*   - Request[T].Do from the pipeline's return to its own,                *)
(*   - WithMiddleware(s) statement by statement beside a request.          *)
(* Durations are in milliseconds; the clock of the cache counts units of   *)
(* the ttl's granularity.                                                  *)
(***************************************************************************)
EXTENDS Integers, Sequences, FiniteSets, TLC

VARIABLES
    \* ---- one invocation of the handler returned by RetryMiddleware ----
    rh,          \* the RetryHandler policy: MinWait, MaxWait, RetryCount, Backoff
    ctx,         \* req.Context().Err(): NilErr until the context is done
    rpc,         \* position in the handler: "call", "decide", "select", "wait", "done"
    attempt,     \* the loop variable attempt
    resp,        \* the local resp
    err,         \* the local err
    wait,        \* the duration the timer was created with
    woken,       \* which case woke the parked select: "none", "ctx", "timer"
    ret,         \* what the handler returned: [resp, err]
    calls,       \* how many times next(req) was invoked
    lastOut,     \* what the last call of next(req) returned: [resp, err]
    lastCtx,     \* ctx.Err() as read by the last shouldRetry
    allFailed,   \* every call of next(req) so far failed in a retryable way
    cancelAt,    \* where the handler was when the context was cancelled
    \* ---- a RequestExecutor ----
    middlewares, \* re.middlewares
    pipeline,    \* re.pipeline, the composed handler
    cacheEnabled,
    retryEnabled,
    authEnabled,
    timeout,     \* re.client.Timeout
    Logger,      \* re.Logger
    refreshers,  \* how many token refreshers were created (one task and one
                 \* first authorize call each)
    caches,      \* how many caches were created by cache.New
    ecall,       \* the configuration method called last, "none" before the first
    ebefore,     \* re.middlewares, re.pipeline and refreshers when it was called
    \* ---- one request sent through re.pipeline ----
    qpc,         \* "idle", "in" (on the way in), "out" (on the way out), "done"
    qcur,        \* the handler about to be invoked
    qstack,      \* the middlewares entered and not yet left, innermost first
    qtrace,      \* the events of the request so far
    qmws,        \* re.middlewares when the request read re.pipeline
    qduring,     \* where a running WithMiddlewares was when the request read
                 \* re.pipeline, "idle" if none was running
    \* ---- one call of a backoff function ----
    bpc,         \* "input" before the call, "returned" after it
    bfn,         \* the function called: "exponential" or "linear"
    bretry,      \* the argument retry
    bmin,        \* the argument min
    bmax,        \* the argument max
    bresp,       \* the argument resp
    bresult,     \* the duration returned
    \* ---- the handler returned by CachingMiddleware(c, ttl), and its cache ----
    cttl,        \* the ttl the middleware and the cache were created with
    cstore,      \* c's items: key -> Item or NoItem
    cnow,        \* time.Now()
    cnextSweep,  \* when the cache's janitor ticks next
    cpc,         \* "idle", "next" (inside next(req)), "done"
    creq,        \* the request: Method and URL
    ckey,        \* the local key
    cret,        \* what the handler returned: [resp, err]
    creqs,       \* how many requests were started
    cnextCalls,  \* calls of next(req) made for this request
    creads,      \* calls of c.Get made for this request
    cwrites,     \* calls of c.Set made for this request
    cseen,       \* c's items when this request entered the handler
    cseenAt,     \* time.Now() when this request entered the handler
    clastOut,    \* what next(req) returned for this request
    chit,        \* the Item this request was answered from, or NoItem
    clastOK,     \* the last GET that completed without error: its URL and when
    cprevOK,     \* when, if that GET was to this request's URL, else -1
    \* ---- a TokenRefresher, its goroutine and the callers of Get ----
    newpc,       \* NewTokenRefresher: "blocked" in started <- struct{}{}, "returned"
    trpc,        \* the goroutine: "authorize", "started" (at <-started), "select"
    token,       \* the goroutine's local token
    terr,        \* the goroutine's local err
    texpired,    \* the channel expired: "none", "armed" or "fired" (a value waits)
    authCalls,   \* how many calls of tr.authorize() have returned
    authResults, \* the token and err they returned, in order
    authStarted, \* how many calls of tr.authorize() were made
    firings,     \* how many times a timer behind expired has fired
    tshort,      \* how many calls of tr.authorize() in a row, up to the last
                 \* that returned, left a timer that was due at once
    gpc,         \* caller, a run of the AuthorizeMiddleware handler -> "idle",
                 \* "receiving" (in tr.Get), "next" (in next(req)), "done"
    ggot,        \* caller -> the tokenInfo its last Get received
    gepoch,      \* caller -> authCalls when its last Get received
    gstarted,    \* caller -> authStarted when its last Get received
    aheader,     \* caller -> the Authorization values of its request's header
    anext,       \* caller -> calls of next(req) made by this run of the handler
    aout,        \* caller -> what next(req) returned to it
    aret,        \* caller -> what the handler returned
    \* ---- one call of Request[T].Do ----
    dpc,         \* "idle", "pipeline" (inside r.re.pipeline(req)), "returned"
    dT,          \* the type parameter T
    dres,        \* the local res
    derr,        \* the err returned by r.re.pipeline(req)
    dvalue,      \* the *T returned
    dError,      \* the error returned
    ddecodes,    \* how many times the body was decoded into a T
    \* ---- a call of WithMiddlewares running beside the requests ----
    wpc,         \* "idle" (no call running), "reset" (before re.pipeline =
                 \* re.do()), "loop" (in the range loop)
    wk           \* how many rounds of the range loop have run

retryVars == <<rh, ctx, rpc, attempt, resp, err, wait, woken, ret, calls,
               lastOut, lastCtx, allFailed, cancelAt>>

execVars == <<middlewares, pipeline, cacheEnabled, retryEnabled, authEnabled,
              timeout, Logger, refreshers, caches, ecall, ebefore>>

requestVars == <<qpc, qcur, qstack, qtrace, qmws, qduring>>

backoffVars == <<bpc, bfn, bretry, bmin, bmax, bresp, bresult>>

cacheVars == <<cttl, cstore, cnow, cnextSweep, cpc, creq, ckey, cret, creqs,
               cnextCalls, creads, cwrites, cseen, cseenAt, clastOut, chit,
               clastOK, cprevOK>>

tokenVars == <<newpc, trpc, token, terr, texpired, authCalls, authResults,
               authStarted, firings, tshort, gpc, ggot, gepoch, gstarted,
               aheader, anext, aout, aret>>

doVars == <<dpc, dT, dres, derr, dvalue, dError, ddecodes>>

rebuildVars == <<wpc, wk>>

vars == <<retryVars, execVars, requestVars, backoffVars, cacheVars, tokenVars, doVars, rebuildVars>>

(***************************************************************************)
(* Bounds of the model.                                                    *)
(***************************************************************************)
MaxRetryCount == 3
MaxMiddlewares == 3
MaxAttemptNumber == 36
MaxRequests == 2
MaxClock == 2
MaxAuthorize == 2
NumCallers == 2

(***************************************************************************)
(* Program constants.                                                      *)
(***************************************************************************)
defaultMinWaitRetry == 500
defaultMaxWaitRetry == 10000
StatusTooManyRequests == 429
StatusNotImplemented == 501
StatusServiceUnavailable == 503
lifeSpanSafetyMargin == 1000

(***************************************************************************)
(* Values: errors and responses.                                           *)
(***************************************************************************)
NilErr == [kind |-> "nil"]
NilResp == [kind |-> "nil"]

\* ctx.Err() of a done context: context.Canceled or context.DeadlineExceeded
CtxErrors == {[kind |-> "context", class |-> c] : c \in {"canceled", "deadline"}}

\* What an error returned by the wrapped handler looks like to shouldRetry:
\* whether it is a *url.Error, and which of the checks its text or its
\* inner error satisfies.
ErrorClasses == {"redirects", "scheme", "notTrusted", "unknownAuthority", "other"}
TransportErrors ==
    {[kind |-> "transport", isURLError |-> u, class |-> c] :
        u \in BOOLEAN, c \in ErrorClasses}

\* The Retry-After header of a response: absent, present and not an integer,
\* or an integer number of seconds.
RetryAfterHeaders ==
    {[present |-> FALSE, isInt |-> FALSE, n |-> 0],
     [present |-> TRUE, isInt |-> FALSE, n |-> 0],
     [present |-> TRUE, isInt |-> TRUE, n |-> 0],
     [present |-> TRUE, isInt |-> TRUE, n |-> 5]}

Statuses == {0, 200, 404, 429, 500, 501, 503, 600}
Responses ==
    {[kind |-> "response", status |-> s, retryAfter |-> h] :
        s \in Statuses, h \in RetryAfterHeaders}

\* What next(req) returns: a response and no error, or an error and no response.
HandlerOutcomes ==
    {[resp |-> r, err |-> NilErr] : r \in Responses}
        \cup {[resp |-> NilResp, err |-> e] : e \in TransportErrors}

\* Vocabulary of the properties. A failure the retry policy is to retry: a
\* transport error outside the non-retryable classes, a 429, or a 5xx other
\* than 501
RetryableStatus(s) == s = 429 \/ (s >= 500 /\ s <= 599 /\ s # 501)
NonRetryableClass(e) ==
    /\ e.kind = "transport"
    /\ e.isURLError
    /\ e.class \in {"redirects", "scheme", "notTrusted", "unknownAuthority"}
RetryableFailure(o) ==
    IF o.err # NilErr THEN ~NonRetryableClass(o.err)
    ELSE RetryableStatus(o.resp.status)

StatusError(r) == [kind |-> "unexpectedStatus", status |-> r.status]

\* fmt.Errorf("... giving up after %d attempt(s)[: %w]", attempt, err)
GivingUp(n, cause) == [kind |-> "givingUp", attempts |-> n, cause |-> cause]

\* errors.Is(e, target) for the errors of this model
Wraps(e, target) ==
    \/ e = target
    \/ (e.kind = "givingUp" /\ e.cause = target)

(***************************************************************************)
(* Backoff functions.                                                      *)
(***************************************************************************)
RECURSIVE Pow2(_)
Pow2(n) == IF n <= 0 THEN 1 ELSE 2 * Pow2(n - 1)

\* time.Duration(math.MinInt64): what int(wait) is on amd64 when wait is
\* outside int64. It is below every integer of the model and is represented
\* by the least one.
MinDuration == -2147483647

\* What the conversion int(wait) yields when wait is outside int64: the Go
\* specification leaves the value to the implementation. amd64 gives
\* math.MinInt64, arm64 saturates to math.MaxInt64.
FloatToIntOutOfRange == {"MinInt64", "MaxInt64"}

\* math.Pow(2, float64(retry)) * float64(min) is 2^63 nanoseconds or more.
\* min is in milliseconds and at most 2147, so that the product is below
\* 2^63 for every retry under 33.
OutOfInt64(retry, min) ==
    /\ min > 0
    /\ retry >= 33
    /\ (retry >= 63 \/ min * 1000000 >= Pow2(63 - retry))

\* math.Pow(2, float64(retry)) * float64(min) as far as the comparison with
\* max needs it: the product itself when it does not exceed cap, and some
\* value above cap otherwise.
RECURSIVE PowTimes(_, _, _)
PowTimes(retry, min, cap) ==
    IF retry <= 0 \/ min > cap THEN min ELSE PowTimes(retry - 1, 2 * min, cap)

\* Mutant: the wait announced by Retry-After is clamped to max like the
\* exponential one
ExponentialBackoffTime_RetryAfterClamped(retry, min, max, r, conv) ==
    LET sleep == IF /\ r # NilResp
                    /\ r.status \in {StatusTooManyRequests, StatusServiceUnavailable}
                    /\ r.retryAfter.present
                    /\ r.retryAfter.isInt
                 THEN 1000 * r.retryAfter.n
                 ELSE PowTimes(retry, min, max)
    IN  IF sleep > max THEN max ELSE sleep

\* ExponentialBackoffTime(retry, min, max, resp); conv is what the build's
\* float-to-integer conversion does with a value outside int64
ExponentialBackoffTime(retry, min, max, r, conv) ==
    IF /\ r # NilResp
       /\ r.status \in {StatusTooManyRequests, StatusServiceUnavailable}
       /\ r.retryAfter.present
       /\ r.retryAfter.isInt
    THEN 1000 * r.retryAfter.n
    ELSE IF OutOfInt64(retry, min)
         THEN IF conv = "MinInt64" THEN MinDuration ELSE max
         ELSE LET duration == PowTimes(retry, min, max)
              IN  IF duration > max THEN max ELSE duration

\* The values int64(rand.Float64() * float64(max-min)) is drawn from here:
\* the least, a middle and the greatest of 0 .. max-min-1.
JitterChoices(min, max) ==
    IF max <= min THEN {0} ELSE {0, (max - min) \div 2, max - min - 1}

\* Mutant: attempt 0 is not raised to 1
LinearJitterBackoffTime_NoFloor(retry, min, max, r, jitter) ==
    IF max <= min THEN min * retry ELSE (jitter + min) * retry

\* LinearJitterBackoffTime(retry, min, max, resp), jitter being the random draw
LinearJitterBackoffTime(retry, min, max, r, jitter) ==
    LET n == IF retry = 0 THEN 1 ELSE retry
    IN  IF max <= min THEN min * n ELSE (jitter + min) * n

\* rh.Backoff(attempt, rh.MinWait, rh.MaxWait, resp)
Backoff(h, n, r, jitter, conv) ==
    IF h.Backoff = "exponential"
    THEN ExponentialBackoffTime(n, h.MinWait, h.MaxWait, r, conv)
    ELSE LinearJitterBackoffTime(n, h.MinWait, h.MaxWait, r, jitter)

(***************************************************************************)
(* RetryHandler.shouldRetry(ctx, resp, err): (retry, err)                  *)
(***************************************************************************)
\* The *url.Error checks of shouldRetry: the three regular expressions on
\* v.Error() and the type of v.Err.
\* Mutant: the unsupported-scheme check is missing
NonRetryable_NoScheme(e) ==
    /\ e.kind = "transport"
    /\ e.isURLError
    /\ e.class \in {"redirects", "notTrusted", "unknownAuthority"}

NonRetryable(e) ==
    /\ e.kind = "transport"
    /\ e.isURLError
    /\ e.class \in {"redirects", "scheme", "notTrusted", "unknownAuthority"}

\* Mutant: 501 is not excepted
UnexpectedStatus_No501(s) == s = 0 \/ s >= 500

\* The status check of shouldRetry that comes with the "unexpected HTTP status" error
UnexpectedStatus(s) == s = 0 \/ (s >= 500 /\ s # StatusNotImplemented)

\* Mutant: the context is not looked at
shouldRetry_NoCtxCheck(c, r, e) ==
    IF e # NilErr
    THEN IF NonRetryable(e)
         THEN [retry |-> FALSE, err |-> e]
         ELSE [retry |-> TRUE, err |-> NilErr]
    ELSE IF r.status = StatusTooManyRequests THEN [retry |-> TRUE, err |-> NilErr]
    ELSE IF UnexpectedStatus(r.status) THEN [retry |-> TRUE, err |-> StatusError(r)]
    ELSE [retry |-> FALSE, err |-> NilErr]

\* Mutant: a transport error is retried only when it is a *url.Error
shouldRetry_URLErrorsOnly(c, r, e) ==
    IF c # NilErr THEN [retry |-> FALSE, err |-> c]
    ELSE IF e # NilErr
         THEN IF NonRetryable(e) \/ ~e.isURLError
              THEN [retry |-> FALSE, err |-> e]
              ELSE [retry |-> TRUE, err |-> NilErr]
    ELSE IF r.status = StatusTooManyRequests THEN [retry |-> TRUE, err |-> NilErr]
    ELSE IF UnexpectedStatus(r.status) THEN [retry |-> TRUE, err |-> StatusError(r)]
    ELSE [retry |-> FALSE, err |-> NilErr]

shouldRetry(c, r, e) ==
    IF c # NilErr THEN [retry |-> FALSE, err |-> c]
    ELSE IF e # NilErr
         THEN IF NonRetryable(e)
              THEN [retry |-> FALSE, err |-> e]
              ELSE [retry |-> TRUE, err |-> NilErr]
    ELSE IF r.status = StatusTooManyRequests THEN [retry |-> TRUE, err |-> NilErr]
    ELSE IF UnexpectedStatus(r.status) THEN [retry |-> TRUE, err |-> StatusError(r)]
    ELSE [retry |-> FALSE, err |-> NilErr]

(***************************************************************************)
(* RetryMiddleware: the handler it returns, for one request.               *)
(***************************************************************************)
\* Mutant: one retry too many
Remain_OffByOne(h, n) == h.RetryCount - n + 1

\* remain := rh.RetryCount - attempt
Remain(h, n) == h.RetryCount - n

\* Mutant: the response of an exhausted retry is returned as a success
GiveUp_ResponseOnExhaustion(r, e, retry, n) ==
    IF e = NilErr THEN [resp |-> r, err |-> NilErr]
    ELSE [resp |-> NilResp, err |-> GivingUp(n, e)]

\* Mutant: the error of a failed request is returned beside the last response
GiveUp_KeepsResponse(r, e, retry, n) ==
    IF e = NilErr /\ ~retry THEN [resp |-> r, err |-> NilErr]
    ELSE [resp |-> r, err |-> GivingUp(n, e)]

\* What the handler returns once the loop is left by a break
GiveUp(r, e, retry, n) ==
    IF e = NilErr /\ ~retry THEN [resp |-> r, err |-> NilErr]
    ELSE IF e = NilErr THEN [resp |-> NilResp, err |-> GivingUp(n, NilErr)]
    ELSE [resp |-> NilResp, err |-> GivingUp(n, e)]

\* Mutant: the local err is returned in place of the context's error
CancelledWait_LocalErr(c) == [resp |-> NilResp, err |-> NilErr]

\* What the handler returns when the context is done during the wait
CancelledWait(c) == [resp |-> NilResp, err |-> c]

RetryHandlers ==
    [MinWait : {defaultMinWaitRetry}, MaxWait : {defaultMaxWaitRetry},
     RetryCount : 0..MaxRetryCount, Backoff : {"exponential", "linear"}]

NoReturn == [resp |-> NilResp, err |-> NilErr]

RetryInit ==
    /\ rh \in RetryHandlers
    /\ ctx \in {NilErr} \cup CtxErrors
    /\ rpc = "call"
    /\ attempt = 0
    /\ resp = NilResp
    /\ err = NilErr
    /\ wait = 0
    /\ woken = "none"
    /\ ret = NoReturn
    /\ calls = 0
    /\ lastOut = NoReturn
    /\ lastCtx = NilErr
    /\ allFailed = TRUE
    /\ cancelAt = IF ctx = NilErr THEN "never" ELSE "start"

\* resp, err = next(req)
Attempt ==
    /\ rpc = "call"
    /\ \E o \in HandlerOutcomes :
          /\ resp' = o.resp
          /\ err' = o.err
          /\ lastOut' = o
          /\ allFailed' = (allFailed /\ RetryableFailure(o))
    /\ calls' = calls + 1
    /\ rpc' = "decide"
    /\ UNCHANGED <<rh, ctx, attempt, wait, woken, ret, lastCtx, cancelAt>>
    /\ UNCHANGED <<execVars, requestVars, backoffVars, cacheVars, tokenVars, doVars, rebuildVars>>

\* shouldRetry, err = rh.shouldRetry(req.Context(), resp, err), the two breaks,
\* the return after the loop, or the backoff and the new timer
Decide ==
    /\ rpc = "decide"
    /\ LET sr == shouldRetry(ctx, resp, err)
       IN  /\ err' = sr.err
           /\ lastCtx' = ctx
           /\ IF ~sr.retry \/ Remain(rh, attempt) <= 0
              THEN /\ ret' = GiveUp(resp, sr.err, sr.retry, attempt)
                   /\ rpc' = "done"
                   /\ wait' = wait
              ELSE /\ \E j \in JitterChoices(rh.MinWait, rh.MaxWait),
                            conv \in FloatToIntOutOfRange :
                         wait' = Backoff(rh, attempt, resp, j, conv)
                   /\ rpc' = "select"
                   /\ ret' = ret
    /\ UNCHANGED <<rh, ctx, attempt, resp, woken, calls, lastOut, allFailed, cancelAt>>
    /\ UNCHANGED <<execVars, requestVars, backoffVars, cacheVars, tokenVars, doVars, rebuildVars>>

\* The select finds <-req.Context().Done() ready
SelectDone ==
    /\ rpc = "select"
    /\ ctx # NilErr
    /\ ret' = CancelledWait(ctx)
    /\ rpc' = "done"
    /\ UNCHANGED <<rh, ctx, attempt, resp, err, wait, woken, calls, lastOut,
                   lastCtx, allFailed, cancelAt>>
    /\ UNCHANGED <<execVars, requestVars, backoffVars, cacheVars, tokenVars, doVars, rebuildVars>>

\* The select finds <-timer.C ready: the timer has expired by the time the
\* select is reached (at once when wait <= 0)
SelectTimer ==
    /\ rpc = "select"
    /\ attempt' = attempt + 1
    /\ rpc' = "call"
    /\ UNCHANGED <<rh, ctx, resp, err, wait, woken, ret, calls, lastOut,
                   lastCtx, allFailed, cancelAt>>
    /\ UNCHANGED <<execVars, requestVars, backoffVars, cacheVars, tokenVars, doVars, rebuildVars>>

\* Neither case is ready: the goroutine parks in the select
SelectPark ==
    /\ rpc = "select"
    /\ ctx = NilErr
    /\ wait > 0
    /\ rpc' = "wait"
    /\ woken' = "none"
    /\ UNCHANGED <<rh, ctx, attempt, resp, err, wait, ret, calls, lastOut,
                   lastCtx, allFailed, cancelAt>>
    /\ UNCHANGED <<execVars, requestVars, backoffVars, cacheVars, tokenVars, doVars, rebuildVars>>

\* The request's context is cancelled or its deadline passes. Closing the Done
\* channel wakes a goroutine parked in the select with that case.
CancelCtx ==
    /\ ctx = NilErr
    /\ rpc # "done"
    /\ ctx' \in CtxErrors
    /\ woken' = IF rpc = "wait" /\ woken = "none" THEN "ctx" ELSE woken
    /\ cancelAt' = IF rpc = "wait" /\ woken = "none" THEN "waiting" ELSE rpc
    /\ UNCHANGED <<rh, rpc, attempt, resp, err, wait, ret, calls, lastOut,
                   lastCtx, allFailed>>
    /\ UNCHANGED <<execVars, requestVars, backoffVars, cacheVars, tokenVars, doVars, rebuildVars>>

\* The timer fires and wakes the goroutine parked in the select
TimerFire ==
    /\ rpc = "wait"
    /\ woken = "none"
    /\ woken' = "timer"
    /\ UNCHANGED <<rh, ctx, rpc, attempt, resp, err, wait, ret, calls, lastOut,
                   lastCtx, allFailed, cancelAt>>
    /\ UNCHANGED <<execVars, requestVars, backoffVars, cacheVars, tokenVars, doVars, rebuildVars>>

\* The woken goroutine runs the case it was woken with
ResumeDone ==
    /\ rpc = "wait"
    /\ woken = "ctx"
    /\ ret' = CancelledWait(ctx)
    /\ rpc' = "done"
    /\ UNCHANGED <<rh, ctx, attempt, resp, err, wait, woken, calls, lastOut,
                   lastCtx, allFailed, cancelAt>>
    /\ UNCHANGED <<execVars, requestVars, backoffVars, cacheVars, tokenVars, doVars, rebuildVars>>

ResumeTimer ==
    /\ rpc = "wait"
    /\ woken = "timer"
    /\ attempt' = attempt + 1
    /\ rpc' = "call"
    /\ UNCHANGED <<rh, ctx, resp, err, wait, woken, ret, calls, lastOut,
                   lastCtx, allFailed, cancelAt>>
    /\ UNCHANGED <<execVars, requestVars, backoffVars, cacheVars, tokenVars, doVars, rebuildVars>>

RetryNext ==
    \/ Attempt
    \/ Decide
    \/ SelectDone
    \/ SelectTimer
    \/ SelectPark
    \/ CancelCtx
    \/ TimerFire
    \/ ResumeDone
    \/ ResumeTimer

(***************************************************************************)
(* RequestExecutor: the composed handler and the configuration methods.    *)
(***************************************************************************)
\* re.do(): the terminal handler, which calls re.client.Do(req)
do == [name |-> "do"]

\* Mutant: the handler is built around a copy of the middleware with a new
\* cache or a new token refresher
Wrap_FreshState(h, next) ==
    [name |-> "handler",
     mw |-> IF h.name = "caching" THEN [h EXCEPT !.cache = @ + 1]
            ELSE IF h.name = "authorize" THEN [h EXCEPT !.refresher = @ + 1]
            ELSE h,
     next |-> next]

\* h(next): the handler a middleware returns around next; the handler closes
\* over what the middleware was made with (c and ttl, tr, rh, the logger)
Wrap(h, next) == [name |-> "handler", mw |-> h, next |-> next]

\* re.pipeline after the first k rounds of
\*   re.pipeline = re.do(); for _, h := range re.middlewares { re.pipeline = h(re.pipeline) }
RECURSIVE Fold(_, _)
Fold(mws, k) == IF k = 0 THEN do ELSE Wrap(mws[k], Fold(mws, k - 1))

\* Mutant: the list is folded from its end, the first middleware outermost
RECURSIVE FoldFromEnd(_, _)
FoldFromEnd(mws, k) ==
    IF k = 0 THEN do
    ELSE Wrap(mws[Len(mws) - k + 1], FoldFromEnd(mws, k - 1))
Rebuild_FirstOutermost(mws) == FoldFromEnd(mws, Len(mws))

\* The rebuild at the end of WithMiddleware and WithMiddlewares
Rebuild(mws) == Fold(mws, Len(mws))

\* The middlewares a caller may attach itself
Customs == {[name |-> "custom", id |-> i] : i \in 1..2}
LoggerMiddleware(l) == [name |-> "logger", logger |-> l]
PerformanceMiddleware(t, l) == [name |-> "performance", threshold |-> t, logger |-> l]
CachingMiddleware(c, t) == [name |-> "caching", cache |-> c, ttl |-> t]
RetryMiddleware(h) == [name |-> "retry", rh |-> h]
AuthorizeMiddleware(tr) == [name |-> "authorize", refresher |-> tr]

\* Arguments of the configuration methods
CustomLists == {<<>>} \cup {<<a>> : a \in Customs}
                      \cup {<<a, b>> : a \in Customs, b \in Customs}
Loggers == {"custom"}
Thresholds == {10}
TTLs == {100}
Timeouts == {100}
RetryArgs == {1, 2}
defaultTimeout == 30000

\* The executor as a configuration method finds it
Snapshot ==
    [middlewares |-> middlewares, pipeline |-> pipeline, refreshers |-> refreshers]

\* A configuration method is entered
Called(name) == ecall' = name /\ ebefore' = Snapshot

\* Mutant: the enabled flag is not looked at
ReturnsEarly_Never(enabled) == FALSE

\* if re.cacheEnabled { return re }, and the same for retryEnabled, authEnabled
ReturnsEarly(enabled) == enabled

\* NewRequestExecutor(client), client.Timeout being 30s as in the default executor
ExecInit ==
    /\ middlewares = <<>>
    /\ pipeline = do
    /\ cacheEnabled = FALSE
    /\ retryEnabled = FALSE
    /\ authEnabled = FALSE
    /\ timeout = defaultTimeout
    /\ Logger = "default"
    /\ refreshers = 0
    /\ caches = 0
    /\ ecall = "none"
    /\ ebefore = Snapshot

WithTimeout ==
    /\ qpc = "idle"
    /\ Called("WithTimeout")
    /\ \E t \in Timeouts : timeout' = t
    /\ UNCHANGED <<middlewares, pipeline, cacheEnabled, retryEnabled, authEnabled,
                   Logger, refreshers, caches>>
    /\ UNCHANGED <<retryVars, requestVars, backoffVars, cacheVars, tokenVars, doVars, rebuildVars>>

WithMiddleware ==
    /\ qpc = "idle"
    /\ Called("WithMiddleware")
    /\ Len(middlewares) < MaxMiddlewares
    /\ \E h \in Customs :
          /\ middlewares' = Append(middlewares, h)
          /\ pipeline' = Rebuild(middlewares')
    /\ UNCHANGED <<cacheEnabled, retryEnabled, authEnabled, timeout, Logger, refreshers, caches>>
    /\ UNCHANGED <<retryVars, requestVars, backoffVars, cacheVars, tokenVars, doVars, rebuildVars>>

WithMiddlewares ==
    /\ qpc = "idle"
    /\ Called("WithMiddlewares")
    /\ \E hs \in CustomLists :
          /\ Len(middlewares) + Len(hs) <= MaxMiddlewares
          /\ middlewares' = middlewares \o hs
          /\ pipeline' = Rebuild(middlewares')
    /\ UNCHANGED <<cacheEnabled, retryEnabled, authEnabled, timeout, Logger, refreshers, caches>>
    /\ UNCHANGED <<retryVars, requestVars, backoffVars, cacheVars, tokenVars, doVars, rebuildVars>>

AddLogging ==
    /\ qpc = "idle"
    /\ Called("AddLogging")
    /\ Len(middlewares) < MaxMiddlewares
    /\ \E l \in Loggers :
          /\ Logger' = l
          /\ middlewares' = Append(middlewares, LoggerMiddleware(l))
    /\ UNCHANGED <<pipeline, cacheEnabled, retryEnabled, authEnabled, timeout, refreshers, caches>>
    /\ UNCHANGED <<retryVars, requestVars, backoffVars, cacheVars, tokenVars, doVars, rebuildVars>>

AddPerformanceMonitor ==
    /\ qpc = "idle"
    /\ Called("AddPerformanceMonitor")
    /\ Len(middlewares) < MaxMiddlewares
    /\ \E l \in Loggers, t \in Thresholds :
          /\ Logger' = l
          /\ middlewares' = Append(middlewares, PerformanceMiddleware(t, l))
    /\ UNCHANGED <<pipeline, cacheEnabled, retryEnabled, authEnabled, timeout, refreshers, caches>>
    /\ UNCHANGED <<retryVars, requestVars, backoffVars, cacheVars, tokenVars, doVars, rebuildVars>>

AddCaching ==
    /\ qpc = "idle"
    /\ Called("AddCaching")
    /\ \E t \in TTLs :
          IF ReturnsEarly(cacheEnabled)
          THEN UNCHANGED <<middlewares, pipeline, cacheEnabled, caches>>
          ELSE /\ Len(middlewares) < MaxMiddlewares
               /\ caches' = caches + 1
               /\ middlewares' = Append(middlewares, CachingMiddleware(caches', t))
               /\ pipeline' = Rebuild(middlewares')
               /\ cacheEnabled' = TRUE
    /\ UNCHANGED <<retryEnabled, authEnabled, timeout, Logger, refreshers>>
    /\ UNCHANGED <<retryVars, requestVars, backoffVars, cacheVars, tokenVars, doVars, rebuildVars>>

\* WithExponentialRetry(retry) and WithLinearRetry(retry) differ in the Backoff only
WithRetry(backoff) ==
    /\ qpc = "idle"
    /\ Called(IF backoff = "exponential" THEN "WithExponentialRetry"
                                       ELSE "WithLinearRetry")
    /\ \E n \in RetryArgs :
          IF ReturnsEarly(retryEnabled)
          THEN UNCHANGED <<middlewares, pipeline, retryEnabled>>
          ELSE /\ Len(middlewares) < MaxMiddlewares
               /\ middlewares' = Append(middlewares,
                      RetryMiddleware([MinWait |-> defaultMinWaitRetry,
                                       MaxWait |-> defaultMaxWaitRetry,
                                       RetryCount |-> n,
                                       Backoff |-> backoff]))
               /\ pipeline' = Rebuild(middlewares')
               /\ retryEnabled' = TRUE
    /\ UNCHANGED <<cacheEnabled, authEnabled, timeout, Logger, refreshers, caches>>
    /\ UNCHANGED <<retryVars, requestVars, backoffVars, cacheVars, tokenVars, doVars, rebuildVars>>

WithExponentialRetry == WithRetry("exponential")

WithLinearRetry == WithRetry("linear")

\* NewTokenRefresher starts the refresher's task, which calls authorize; the
\* flag set at the end is retryEnabled
WithAuthorization ==
    /\ qpc = "idle"
    /\ Called("WithAuthorization")
    /\ IF ReturnsEarly(authEnabled)
       THEN UNCHANGED <<middlewares, pipeline, retryEnabled, refreshers>>
       ELSE /\ Len(middlewares) < MaxMiddlewares
            /\ refreshers' = refreshers + 1
            /\ middlewares' = Append(middlewares, AuthorizeMiddleware(refreshers'))
            /\ pipeline' = Rebuild(middlewares')
            /\ retryEnabled' = TRUE
    /\ UNCHANGED <<cacheEnabled, authEnabled, timeout, Logger, caches>>
    /\ UNCHANGED <<retryVars, requestVars, backoffVars, cacheVars, tokenVars, doVars, rebuildVars>>

(***************************************************************************)
(* One request through the composed handler: res, err := r.re.pipeline(req) *)
(* Every middleware's handler does its work, calls next(req) and returns.  *)
(***************************************************************************)
RequestInit ==
    /\ qpc = "idle"
    /\ qcur = do
    /\ qstack = <<>>
    /\ qtrace = <<>>
    /\ qmws = <<>>
    /\ qduring = "idle"

\* Request.Do reads re.pipeline and calls it
StartRequest ==
    /\ qpc = "idle"
    /\ qpc' = "in"
    /\ qcur' = pipeline
    /\ qmws' = middlewares
    /\ qduring' = wpc
    /\ qstack' = <<>>
    /\ qtrace' = <<>>
    /\ UNCHANGED <<retryVars, execVars, backoffVars, cacheVars, tokenVars, doVars, rebuildVars>>

\* A middleware's handler is entered and calls next(req)
EnterMiddleware ==
    /\ qpc = "in"
    /\ qcur.name = "handler"
    /\ qtrace' = Append(qtrace, [ev |-> "in", mw |-> qcur.mw])
    /\ qstack' = <<qcur.mw>> \o qstack
    /\ qcur' = qcur.next
    /\ UNCHANGED <<qpc, qmws, qduring>>
    /\ UNCHANGED <<retryVars, execVars, backoffVars, cacheVars, tokenVars, doVars, rebuildVars>>

\* The terminal handler runs re.client.Do(req)
CallTerminal ==
    /\ qpc = "in"
    /\ qcur.name = "do"
    /\ qtrace' = Append(qtrace, [ev |-> "do", mw |-> do])
    /\ qpc' = "out"
    /\ UNCHANGED <<qcur, qstack, qmws, qduring>>
    /\ UNCHANGED <<retryVars, execVars, backoffVars, cacheVars, tokenVars, doVars, rebuildVars>>

\* next(req) returns into the innermost middleware entered and not yet left
LeaveMiddleware ==
    /\ qpc = "out"
    /\ qstack # <<>>
    /\ qtrace' = Append(qtrace, [ev |-> "out", mw |-> Head(qstack)])
    /\ qstack' = Tail(qstack)
    /\ UNCHANGED <<qpc, qcur, qmws, qduring>>
    /\ UNCHANGED <<retryVars, execVars, backoffVars, cacheVars, tokenVars, doVars, rebuildVars>>

\* re.pipeline(req) returns to Request.Do
FinishRequest ==
    /\ qpc = "out"
    /\ qstack = <<>>
    /\ qpc' = "done"
    /\ UNCHANGED <<qcur, qstack, qtrace, qmws, qduring>>
    /\ UNCHANGED <<retryVars, execVars, backoffVars, cacheVars, tokenVars, doVars, rebuildVars>>

ExecNext ==
    \/ WithTimeout
    \/ WithMiddleware
    \/ WithMiddlewares
    \/ AddLogging
    \/ AddPerformanceMonitor
    \/ AddCaching
    \/ WithExponentialRetry
    \/ WithLinearRetry
    \/ WithAuthorization
    \/ StartRequest
    \/ EnterMiddleware
    \/ CallTerminal
    \/ LeaveMiddleware
    \/ FinishRequest

(***************************************************************************)
(* One call of a backoff function, on arguments drawn from BackoffArgs.    *)
(***************************************************************************)
BackoffMins == {0, 500, 1000, 2000}
BackoffMaxs == {1000, 10000}

BackoffInit ==
    /\ bpc = "input"
    /\ bfn = "none"
    /\ bretry \in 0..MaxAttemptNumber
    /\ bmin \in BackoffMins
    /\ bmax \in BackoffMaxs
    /\ bresp \in {NilResp} \cup Responses
    /\ bresult = 0

\* The backoff variables at rest, for the specifications that do not use them
BackoffQuiet ==
    /\ bpc = "input"
    /\ bfn = "none"
    /\ bretry = 0
    /\ bmin = 0
    /\ bmax = 0
    /\ bresp = NilResp
    /\ bresult = 0

CallExponential ==
    /\ bpc = "input"
    /\ \E conv \in FloatToIntOutOfRange :
          bresult' = ExponentialBackoffTime(bretry, bmin, bmax, bresp, conv)
    /\ bfn' = "exponential"
    /\ bpc' = "returned"
    /\ UNCHANGED <<bretry, bmin, bmax, bresp>>
    /\ UNCHANGED <<retryVars, execVars, requestVars, cacheVars, tokenVars, doVars, rebuildVars>>

CallLinear ==
    /\ bpc = "input"
    /\ \E jitter \in JitterChoices(bmin, bmax) :
          bresult' = LinearJitterBackoffTime(bretry, bmin, bmax, bresp, jitter)
    /\ bfn' = "linear"
    /\ bpc' = "returned"
    /\ UNCHANGED <<bretry, bmin, bmax, bresp>>
    /\ UNCHANGED <<retryVars, execVars, requestVars, cacheVars, tokenVars, doVars, rebuildVars>>

BackoffNext == CallExponential \/ CallLinear

(***************************************************************************)
(* CachingMiddleware(c, ttl): the handler it returns, and the cache c of   *)
(* github.com/patrickmn/go-cache it is given by AddCaching.                *)
(***************************************************************************)
\* Request URLs: a path and a query of one letter each
PathRunes == {"a", "A"}
QueryRunes == {"a", "A", "b"}
URLs == [path : PathRunes, query : QueryRunes]
Methods == {"GET", "POST"}

\* req.URL.String()
URLString(u) == <<u.path, "?", u.query>>

\* Mutant: the key keeps the case of the URL
ToLower_Identity(str) == str

\* strings.ToLower(s)
ToLower(str) == [i \in 1..Len(str) |-> IF str[i] = "A" THEN "a" ELSE str[i]]

CacheKeys == {URLString(u) : u \in URLs}

\* Mutant: every method goes through the cache
Cacheable_AnyMethod(method) == TRUE

\* req.Method != "GET" sends the request straight to next
Cacheable(method) == method = "GET"

\* An Item of the cache: the object and its expiration time (0: none). storedAt,
\* cause and url record the c.Set that put it there: when, the err of the
\* call it followed, and that request's URL.
NoItem == [kind |-> "none"]
Item(x, e, now, cause, u) ==
    [kind |-> "item", Object |-> x, Expiration |-> e,
     storedAt |-> now, cause |-> cause, url |-> u]

\* cache.New(ttl, 2*ttl): no items
CacheNew == [k \in CacheKeys |-> NoItem]

\* Mutant: items never expire
Expired_Never(item, now) == FALSE

\* Item.Expired as c.Get and the janitor's DeleteExpired test it
Expired(item, now) == item.Expiration > 0 /\ now > item.Expiration

\* Mutant: the lookup finds nothing
CacheGet_AlwaysMiss(store, k, now) == [ok |-> FALSE, item |-> NoItem]

\* c.Get(key)
CacheGet(store, k, now) ==
    IF store[k] # NoItem /\ ~Expired(store[k], now)
    THEN [ok |-> TRUE, item |-> store[k]]
    ELSE [ok |-> FALSE, item |-> NoItem]

\* c.Set(key, resp, ttl)
CacheSet(store, k, x, d, now, cause, u) ==
    [store EXCEPT ![k] = Item(x, IF d > 0 THEN now + d ELSE 0, now, cause, u)]

\* The janitor's c.DeleteExpired()
DeleteExpired(store, now) ==
    [k \in CacheKeys |->
        IF store[k] # NoItem /\ Expired(store[k], now) THEN NoItem ELSE store[k]]

\* Mutant: the result is stored when the call succeeded
Stores_OnSuccess(e) == e = NilErr

\* if err != nil { c.Set(key, resp, ttl) }
Stores(e) == e # NilErr

\* What next(req) returns to the caching handler on its n-th call: a response
\* and no error, an error and no response, or an error with a response
CacheResponse(n) == [kind |-> "response", id |-> n, status |-> 200]
CacheError == [kind |-> "transport", isURLError |-> TRUE, class |-> "other"]
CacheOutcomes(n) ==
    {[resp |-> CacheResponse(n), err |-> NilErr],
     [resp |-> NilResp, err |-> CacheError],
     [resp |-> CacheResponse(n), err |-> CacheError]}

CacheTTLs == {1, 2}

NoGet == [kind |-> "none"]
CompletedGet(u, now) == [kind |-> "get", url |-> u, at |-> now]

\* AddCaching(ttl) has run: an empty cache whose janitor ticks every 2*ttl
CacheInit ==
    /\ cttl \in CacheTTLs
    /\ cstore = CacheNew
    /\ cnow = 0
    /\ cnextSweep = 2 * cttl
    /\ cpc = "idle"
    /\ creq = [Method |-> "GET", URL |-> [path |-> "a", query |-> "a"]]
    /\ ckey = <<>>
    /\ cret = NoReturn
    /\ creqs = 0
    /\ cnextCalls = 0
    /\ creads = 0
    /\ cwrites = 0
    /\ cseen = CacheNew
    /\ cseenAt = 0
    /\ clastOut = NoReturn
    /\ chit = NoItem
    /\ clastOK = NoGet
    /\ cprevOK = -1

\* The cache variables at rest, for the specifications that do not use them
CacheQuiet ==
    /\ CacheInit
    /\ cttl = 1

\* A request enters the handler: the method test, the key, c.Get(key) and the
\* return of a hit
CacheHandle ==
    /\ cpc \in {"idle", "done"}
    /\ creqs < MaxRequests
    /\ creqs' = creqs + 1
    /\ \E m \in Methods, u \in URLs :
          /\ creq' = [Method |-> m, URL |-> u]
          /\ cprevOK' = IF clastOK # NoGet /\ clastOK.url = u THEN clastOK.at ELSE -1
          /\ IF ~Cacheable(m)
             THEN /\ cpc' = "next"
                  /\ creads' = 0
                  /\ cret' = NoReturn
                  /\ chit' = NoItem
                  /\ UNCHANGED <<ckey, clastOK>>
             ELSE LET key == ToLower(URLString(u))
                      got == CacheGet(cstore, key, cnow)
                  IN  /\ ckey' = key
                      /\ creads' = 1
                      /\ IF got.ok
                         THEN /\ cret' = [resp |-> got.item.Object, err |-> NilErr]
                              /\ chit' = got.item
                              /\ clastOK' = CompletedGet(u, cnow)
                              /\ cpc' = "done"
                         ELSE /\ cret' = NoReturn
                              /\ chit' = NoItem
                              /\ cpc' = "next"
                              /\ UNCHANGED clastOK
    /\ cnextCalls' = 0
    /\ cwrites' = 0
    /\ cseen' = cstore
    /\ cseenAt' = cnow
    /\ clastOut' = NoReturn
    /\ UNCHANGED <<cttl, cstore, cnow, cnextSweep>>
    /\ UNCHANGED <<retryVars, execVars, requestVars, backoffVars, tokenVars, doVars, rebuildVars>>

\* next(req) returns: the result is stored if c.Set is reached, and returned
CacheNextReturns ==
    /\ cpc = "next"
    /\ \E o \in CacheOutcomes(creqs) :
          /\ clastOut' = o
          /\ cret' = o
          /\ IF Cacheable(creq.Method) /\ Stores(o.err)
             THEN /\ cstore' = CacheSet(cstore, ckey, o.resp, cttl, cnow,
                                        o.err, creq.URL)
                  /\ cwrites' = cwrites + 1
             ELSE UNCHANGED <<cstore, cwrites>>
          /\ clastOK' = IF creq.Method = "GET" /\ o.err = NilErr
                        THEN CompletedGet(creq.URL, cnow)
                        ELSE clastOK
    /\ cnextCalls' = cnextCalls + 1
    /\ cpc' = "done"
    /\ UNCHANGED <<cttl, cnow, cnextSweep, creq, ckey, creqs, creads, cseen,
                   cseenAt, chit, cprevOK>>
    /\ UNCHANGED <<retryVars, execVars, requestVars, backoffVars, tokenVars, doVars, rebuildVars>>

\* Time passes
CacheTick ==
    /\ cnow < MaxClock
    /\ cnow' = cnow + 1
    /\ UNCHANGED <<cttl, cstore, cnextSweep, cpc, creq, ckey, cret, creqs,
                   cnextCalls, creads, cwrites, cseen, cseenAt, clastOut, chit,
                   clastOK, cprevOK>>
    /\ UNCHANGED <<retryVars, execVars, requestVars, backoffVars, tokenVars, doVars, rebuildVars>>

\* The janitor's ticker has fired: expired items are deleted
CacheSweep ==
    /\ cnow >= cnextSweep
    /\ cstore' = DeleteExpired(cstore, cnow)
    /\ cnextSweep' = cnextSweep + 2 * cttl
    /\ UNCHANGED <<cttl, cnow, cpc, creq, ckey, cret, creqs, cnextCalls, creads,
                   cwrites, cseen, cseenAt, clastOut, chit, clastOK, cprevOK>>
    /\ UNCHANGED <<retryVars, execVars, requestVars, backoffVars, tokenVars, doVars, rebuildVars>>

CacheNext == CacheHandle \/ CacheNextReturns \/ CacheTick \/ CacheSweep

(***************************************************************************)
(* TokenRefresher: the goroutine started by RefreshToken, and Get.         *)
(***************************************************************************)
Callers == 1..NumCallers

AuthError == [kind |-> "authorize"]
\* The lifespans authorize may return: none, the safety margin, and more
LifeSpans == {0, 1000, 3000}
Schema == "Bearer"

\* What the n-th call of tr.authorize() may return. The token is n, so that
\* the results of different calls differ.
AuthorizeResults(n) ==
    [token : {n}, lifeSpan : LifeSpans, err : {NilErr, AuthError}]

\* Mutant: a failed call leaves the token of the call before it in place
Assigned_KeepTokenOnError(cur, r) ==
    [token |-> IF r.err # NilErr THEN cur.token ELSE r.token, err |-> r.err]

\* token, lifeSpan, err = tr.authorize(): the locals token and err after it
Assigned(cur, r) == [token |-> r.token, err |-> r.err]

\* Mutant: the goroutine ends when authorize fails
Resume_ReturnOnError(first, e) ==
    IF e # NilErr THEN "stopped" ELSE IF first THEN "started" ELSE "select"

\* Where the goroutine goes on after tr.authorize() and the logging of its
\* error: to <-started after the first call, back into the loop after the others
Resume(first, e) == IF first THEN "started" ELSE "select"

\* Mutant: the error is left out of what is sent
tokenInfo_NoError(t, e) == [Token |-> t, Error |-> NilErr]

\* tokenInfo{Token: token, Error: err}
tokenInfo(t, e) == [Token |-> t, Error |-> e]

NoTokenInfo == [Token |-> 0, Error |-> NilErr]

\* time.After(d): the channel has its value at once when d <= 0
After(d) == IF d <= 0 THEN "fired" ELSE "armed"

\* Mutant: the value stays in the channel after the receive
Received_Kept(ch) == ch

\* <-expired: the channel after its value was received
Received(ch) == "none"

\* Mutant: the goroutine lets RefreshToken return before it calls authorize
AtHandshake_BeforeAuthorize(pc) == pc \in {"authorize", "started"}

\* The goroutine is at <-started, which follows the first tr.authorize()
AtHandshake(pc) == pc = "started"

\* Mutant: the select has no case <-expired that could be taken
ExpiredReady_Never(ch) == FALSE

\* case <-expired: is ready when the channel holds its value
ExpiredReady(ch) == ch = "fired"

\* Mutant: the goroutine never gets to its send
Offering_Never(pc) == FALSE

\* Mutant: the old value is also offered while tr.authorize() runs
Offering_DuringAuthorize(pc) == pc \in {"select", "authorize"}

\* The goroutine is at its select, where the case tr.accessToken <- ... is
Offering(pc) == pc = "select"

\* Mutant: the header is added whatever tr.Get() returned
AddsHeader_Always(e) == TRUE

\* if err != nil { tr.logger.Warn(...) } else { req.Header.Add(...) }
AddsHeader(e) == e = NilErr

\* fmt.Sprintf("%s %s", tr.Schema, token)
AuthorizationValue(schema, t) == <<schema, " ", t>>

\* What next(req) returns to the handler of AuthorizeMiddleware
AuthOutcomes ==
    {[resp |-> [kind |-> "response", status |-> st], err |-> NilErr] : st \in {200, 401}}

\* NewTokenRefresher has made tr and RefreshToken has started the goroutine,
\* which is in its first tr.authorize(); RefreshToken is at started <- struct{}{}
TokenInit ==
    /\ newpc = "blocked"
    /\ trpc = "authorize"
    /\ token = 0
    /\ terr = NilErr
    /\ texpired = "none"
    /\ authCalls = 0
    /\ authResults = <<>>
    /\ authStarted = 1
    /\ firings = 0
    /\ tshort = 0
    /\ gpc = [c \in Callers |-> "idle"]
    /\ ggot = [c \in Callers |-> NoTokenInfo]
    /\ gepoch = [c \in Callers |-> 0]
    /\ gstarted = [c \in Callers |-> 0]
    /\ aheader = [c \in Callers |-> <<>>]
    /\ anext = [c \in Callers |-> 0]
    /\ aout = [c \in Callers |-> NoReturn]
    /\ aret = [c \in Callers |-> NoReturn]

\* token, lifeSpan, err = tr.authorize(); expired = time.After(lifeSpan -
\* lifeSpanSafetyMargin); the logging of err: before the loop, and in the case
\* <-expired
AuthorizeReturns ==
    /\ trpc = "authorize"
    /\ \E r \in AuthorizeResults(authCalls + 1) :
          LET a == Assigned([token |-> token, err |-> terr], r)
          IN  /\ token' = a.token
              /\ terr' = a.err
              /\ texpired' = After(r.lifeSpan - lifeSpanSafetyMargin)
              /\ firings' = IF texpired' = "fired" THEN firings + 1 ELSE firings
              /\ tshort' = IF texpired' = "fired" THEN tshort + 1 ELSE 0
              /\ authResults' = Append(authResults, [token |-> r.token, err |-> r.err])
              /\ trpc' = Resume(authCalls = 0, r.err)
    /\ authCalls' = authCalls + 1
    /\ UNCHANGED <<newpc, authStarted, gpc, ggot, gepoch, gstarted,
                   aheader, anext, aout, aret>>
    /\ UNCHANGED <<retryVars, execVars, requestVars, backoffVars, cacheVars, doVars, rebuildVars>>

\* <-started meets started <- struct{}{}: the goroutine enters the loop and
\* RefreshToken, then NewTokenRefresher, return
Started ==
    /\ AtHandshake(trpc)
    /\ newpc = "blocked"
    /\ trpc' = "select"
    /\ newpc' = "returned"
    /\ UNCHANGED <<token, terr, texpired, authCalls, authResults, authStarted,
                   firings, tshort, gpc, ggot, gepoch, gstarted, aheader, anext,
                   aout, aret>>
    /\ UNCHANGED <<retryVars, execVars, requestVars, backoffVars, cacheVars, doVars, rebuildVars>>

\* The timer behind expired fires
ExpiredFires ==
    /\ texpired = "armed"
    /\ texpired' = "fired"
    /\ firings' = firings + 1
    /\ UNCHANGED tshort
    /\ UNCHANGED <<newpc, trpc, token, terr, authCalls, authResults, authStarted,
                   gpc, ggot, gepoch, gstarted, aheader, anext, aout, aret>>
    /\ UNCHANGED <<retryVars, execVars, requestVars, backoffVars, cacheVars, doVars, rebuildVars>>

\* The handler of AuthorizeMiddleware(tr) is invoked with a new request: it
\* calls tr.Get(), which waits in <-tr.accessToken
GetCall(c) ==
    /\ newpc = "returned"
    /\ gpc[c] \in {"idle", "done"}
    /\ gpc' = [gpc EXCEPT ![c] = "receiving"]
    /\ aheader' = [aheader EXCEPT ![c] = <<>>]
    /\ anext' = [anext EXCEPT ![c] = 0]
    /\ aout' = [aout EXCEPT ![c] = NoReturn]
    /\ aret' = [aret EXCEPT ![c] = NoReturn]
    /\ ggot' = [ggot EXCEPT ![c] = NoTokenInfo]
    /\ gepoch' = [gepoch EXCEPT ![c] = 0]
    /\ gstarted' = [gstarted EXCEPT ![c] = 0]
    /\ UNCHANGED <<newpc, trpc, token, terr, texpired, authCalls, authResults,
                   authStarted, firings, tshort>>
    /\ UNCHANGED <<retryVars, execVars, requestVars, backoffVars, cacheVars, doVars, rebuildVars>>

\* case tr.accessToken <- tokenInfo{...} meets the receive of one waiting
\* Get, which returns tokenInfo.Token, tokenInfo.Error; the handler warns or
\* adds the header, and calls next(req)
SelectSend(c) ==
    /\ Offering(trpc)
    /\ gpc[c] = "receiving"
    /\ LET got == tokenInfo(token, terr)
       IN  /\ ggot' = [ggot EXCEPT ![c] = got]
           /\ aheader' = [aheader EXCEPT ![c] =
                             IF AddsHeader(got.Error)
                             THEN Append(@, AuthorizationValue(Schema, got.Token))
                             ELSE @]
    /\ gepoch' = [gepoch EXCEPT ![c] = authCalls]
    /\ gstarted' = [gstarted EXCEPT ![c] = authStarted]
    /\ gpc' = [gpc EXCEPT ![c] = "next"]
    /\ UNCHANGED <<newpc, trpc, token, terr, texpired, authCalls, authResults,
                   authStarted, firings, tshort, anext, aout, aret>>
    /\ UNCHANGED <<retryVars, execVars, requestVars, backoffVars, cacheVars, doVars, rebuildVars>>

\* return next(req)
AuthorizedNextReturns(c) ==
    /\ gpc[c] = "next"
    /\ \E o \in AuthOutcomes :
          /\ aout' = [aout EXCEPT ![c] = o]
          /\ aret' = [aret EXCEPT ![c] = o]
    /\ anext' = [anext EXCEPT ![c] = @ + 1]
    /\ gpc' = [gpc EXCEPT ![c] = "done"]
    /\ UNCHANGED <<newpc, trpc, token, terr, texpired, authCalls, authResults,
                   authStarted, firings, tshort, ggot, gepoch, gstarted, aheader>>
    /\ UNCHANGED <<retryVars, execVars, requestVars, backoffVars, cacheVars, doVars, rebuildVars>>

\* case <-expired: the goroutine goes to call tr.authorize() again
SelectExpired ==
    /\ trpc = "select"
    /\ ExpiredReady(texpired)
    /\ authCalls < MaxAuthorize
    /\ trpc' = "authorize"
    /\ texpired' = Received(texpired)
    /\ authStarted' = authStarted + 1
    /\ UNCHANGED <<newpc, token, terr, authCalls, authResults, firings, tshort, gpc, ggot,
                   gepoch, gstarted, aheader, anext, aout, aret>>
    /\ UNCHANGED <<retryVars, execVars, requestVars, backoffVars, cacheVars, doVars, rebuildVars>>

TokenNext ==
    \/ AuthorizeReturns
    \/ Started
    \/ ExpiredFires
    \/ \E c \in Callers : GetCall(c)
    \/ \E c \in Callers : SelectSend(c)
    \/ \E c \in Callers : AuthorizedNextReturns(c)
    \/ SelectExpired

(***************************************************************************)
(* Request[T].Do: from the call of the pipeline to the return.             *)
(***************************************************************************)
\* The type parameters of the requests
Types == {"struct", "string", "int"}

\* Response bodies: a JSON object, a JSON number, and plain text
Bodies == {"{\"id\":1}", "42", "custom endpoint error"}
ContentTypes == {"", "application/json; charset=utf-8", "text/plain"}
DoStatuses == {200, 399, 400, 404, 500}
StatusBadRequest == 400

\* The error of a response body that cannot be read to its end
ReadError == [kind |-> "read"]

\* What the pipeline can return: res, whose Body reads as body or fails with
\* readErr, and err
DoResponses ==
    [kind : {"resp"}, status : DoStatuses, contentType : ContentTypes,
     body : Bodies, readErr : {NilErr, ReadError}]
DoOutcomes ==
    [resp : {NilResp} \cup DoResponses,
     err : {NilErr, [kind |-> "transport", class |-> "other"]}]

\* The arguments of Do's url check: a url with a host, and one without
DoURLs == {"http://host/a", "/a"}
HasHost(u) == u = "http://host/a"

\* &Error{Message, Cause, StatusCode}; the zero value of StatusCode is 0
Error(message, cause, status) ==
    [kind |-> "Error", Message |-> message, Cause |-> cause, StatusCode |-> status]
\* fmt.Errorf("%s", responseData)
Errorf(data) == [kind |-> "errorf", text |-> data]
NilValue == [kind |-> "nil"]
Value(T, data) == [kind |-> "value", type |-> T, data |-> data]

\* Mutant: only the server errors are turned into an Error
IsErrorStatus_ServerOnly(s) == s >= 500

\* res.StatusCode >= http.StatusBadRequest
IsErrorStatus(s) == s >= StatusBadRequest

\* strings.Contains(contentType, "application/json") || contentType == ""
IsJSON(contentType) ==
    contentType \in {"", "application/json", "application/json; charset=utf-8"}

\* json.Unmarshal(responseData, &responseObject) succeeds
Unmarshals(T, body) ==
    \/ T = "struct" /\ body = "{\"id\":1}"
    \/ T = "int" /\ body = "42"

\* The conversion of a body that is not JSON succeeds: a string is taken as
\* it is, an int is parsed by strconv.Atoi, other types are unsupported
Converts(T, body) ==
    \/ T = "string"
    \/ T = "int" /\ body = "42"

DoReturn(value, e, decodes) == [value |-> value, err |-> e, decodes |-> decodes]

\* The decoding of the body of a response below 400
Decode(T, res) ==
    IF IsJSON(res.contentType)
    THEN IF Unmarshals(T, res.body)
         THEN DoReturn(Value(T, res.body), NilErr, 1)
         ELSE DoReturn(NilValue,
                       Error("error unmarshaling response", [kind |-> "json"], res.status), 1)
    ELSE IF Converts(T, res.body)
         THEN DoReturn(Value(T, res.body), NilErr, 1)
         ELSE DoReturn(NilValue,
                       Error("error converting response", [kind |-> "parse"], res.status), 1)

\* Do from the return of r.re.pipeline(req) on
DoResult(T, res, e) ==
    IF e # NilErr
    THEN DoReturn(NilValue, Error("failed to make request", e, 0), 0)
    ELSE IF res = NilResp
    THEN DoReturn(NilValue, Error("returned empty response", NilErr, 0), 0)
    ELSE IF res.readErr # NilErr
    THEN DoReturn(NilValue, Error("failed to read response body", res.readErr, 0), 0)
    ELSE IF IsErrorStatus(res.status)
    THEN DoReturn(NilValue, Error("error calling", Errorf(res.body), res.status), 0)
    ELSE Decode(T, res)

DoInit ==
    /\ dpc = "idle"
    /\ dT = "struct"
    /\ dres = NilResp
    /\ derr = NilErr
    /\ dvalue = NilValue
    /\ dError = NilErr
    /\ ddecodes = 0

\* Do is called: the url is checked, the request is built and handed to the
\* pipeline. isValidURL's error for a url without host has the nil err of
\* url.Parse as its Cause.
DoCall ==
    /\ dpc \in {"idle", "returned"}
    /\ \E T \in Types, u \in DoURLs :
          /\ dT' = T
          /\ IF HasHost(u)
             THEN dpc' = "pipeline" /\ dError' = NilErr
             ELSE dpc' = "returned" /\ dError' = Error("invalid url host", NilErr, 0)
    /\ dres' = NilResp
    /\ derr' = NilErr
    /\ dvalue' = NilValue
    /\ ddecodes' = 0
    /\ UNCHANGED <<retryVars, execVars, requestVars, backoffVars, cacheVars, tokenVars, rebuildVars>>

\* r.re.pipeline(req) returns and Do runs to its return
DoReturns ==
    /\ dpc = "pipeline"
    /\ \E o \in DoOutcomes :
          /\ dres' = o.resp
          /\ derr' = o.err
          /\ LET r == DoResult(dT, o.resp, o.err) IN
                /\ dvalue' = r.value
                /\ dError' = r.err
                /\ ddecodes' = r.decodes
    /\ dpc' = "returned"
    /\ UNCHANGED dT
    /\ UNCHANGED <<retryVars, execVars, requestVars, backoffVars, cacheVars, tokenVars, rebuildVars>>

DoNext ==
    \/ DoCall
    \/ DoReturns

(***************************************************************************)
(* WithMiddleware and WithMiddlewares statement by statement, on a         *)
(* goroutine of their own beside the one sending a request. re.pipeline is *)
(* one word: a read that races with the writes sees one of the values      *)
(* written.                                                                *)
(***************************************************************************)
RebuildInit ==
    /\ wpc = "idle"
    /\ wk = 0

\* re.middlewares = append(re.middlewares, handlers...)
WithMiddlewaresAppend ==
    /\ wpc = "idle"
    /\ Called("WithMiddlewares")
    /\ \E hs \in CustomLists :
          /\ Len(middlewares) + Len(hs) <= MaxMiddlewares
          /\ middlewares' = middlewares \o hs
    /\ wpc' = "reset"
    /\ UNCHANGED <<pipeline, cacheEnabled, retryEnabled, authEnabled, timeout, Logger,
                   refreshers, caches, wk>>
    /\ UNCHANGED <<retryVars, requestVars, backoffVars, cacheVars, tokenVars, doVars>>

\* re.pipeline = re.do()
WithMiddlewaresReset ==
    /\ wpc = "reset"
    /\ pipeline' = do
    /\ wk' = 0
    /\ wpc' = "loop"
    /\ UNCHANGED <<middlewares, cacheEnabled, retryEnabled, authEnabled, timeout, Logger,
                   refreshers, caches, ecall, ebefore>>
    /\ UNCHANGED <<retryVars, requestVars, backoffVars, cacheVars, tokenVars, doVars>>

\* One round of the loop: re.pipeline = h(re.pipeline)
WithMiddlewaresWrap ==
    /\ wpc = "loop"
    /\ wk < Len(middlewares)
    /\ pipeline' = Wrap(middlewares[wk + 1], pipeline)
    /\ wk' = wk + 1
    /\ UNCHANGED <<middlewares, cacheEnabled, retryEnabled, authEnabled, timeout, Logger,
                   refreshers, caches, ecall, ebefore, wpc>>
    /\ UNCHANGED <<retryVars, requestVars, backoffVars, cacheVars, tokenVars, doVars>>

\* The loop is over: return re
WithMiddlewaresReturn ==
    /\ wpc = "loop"
    /\ wk = Len(middlewares)
    /\ wpc' = "idle"
    /\ UNCHANGED <<execVars, wk>>
    /\ UNCHANGED <<retryVars, requestVars, backoffVars, cacheVars, tokenVars, doVars>>

\* AddLogging, called when no WithMiddlewares is running
AddLoggingBetween ==
    /\ wpc = "idle"
    /\ Called("AddLogging")
    /\ Len(middlewares) < MaxMiddlewares
    /\ \E l \in Loggers :
          /\ Logger' = l
          /\ middlewares' = Append(middlewares, LoggerMiddleware(l))
    /\ UNCHANGED <<pipeline, cacheEnabled, retryEnabled, authEnabled, timeout, refreshers, caches>>
    /\ UNCHANGED <<retryVars, requestVars, backoffVars, cacheVars, tokenVars, doVars,
                   rebuildVars>>

RebuildNext ==
    \/ WithMiddlewaresAppend
    \/ WithMiddlewaresReset
    \/ WithMiddlewaresWrap
    \/ WithMiddlewaresReturn
    \/ AddLoggingBetween
    \/ StartRequest
    \/ EnterMiddleware
    \/ CallTerminal
    \/ LeaveMiddleware
    \/ FinishRequest

(***************************************************************************)
(* Specifications.                                                         *)
(***************************************************************************)
\* One request through the retry middleware
InitRetry == RetryInit /\ ExecInit /\ RequestInit /\ BackoffQuiet /\ CacheQuiet
        /\ TokenInit /\ DoInit /\ RebuildInit

SpecRetry == InitRetry /\ [][RetryNext]_vars

\* The retry variables at rest, for the specifications that do not use them
RetryQuiet ==
    /\ RetryInit
    /\ rh.RetryCount = 0
    /\ rh.Backoff = "exponential"
    /\ ctx = NilErr

\* An executor being configured, then one request through its pipeline
InitExecutor == RetryQuiet /\ ExecInit /\ RequestInit /\ BackoffQuiet /\ CacheQuiet
        /\ TokenInit /\ DoInit /\ RebuildInit

SpecExecutor == InitExecutor /\ [][ExecNext]_vars

\* One call of ExponentialBackoffTime or of LinearJitterBackoffTime
InitBackoff == RetryQuiet /\ ExecInit /\ RequestInit /\ BackoffInit /\ CacheQuiet
        /\ TokenInit /\ DoInit /\ RebuildInit

SpecBackoff == InitBackoff /\ [][BackoffNext]_vars

\* Requests through the caching handler of an executor after AddCaching(ttl)
InitCache == RetryQuiet /\ ExecInit /\ RequestInit /\ BackoffQuiet /\ CacheInit
        /\ TokenInit /\ DoInit /\ RebuildInit

SpecCache == InitCache /\ [][CacheNext]_vars

\* A token refresher from its first authorize call on, and callers of Get
InitToken == RetryQuiet /\ ExecInit /\ RequestInit /\ BackoffQuiet /\ CacheQuiet
        /\ TokenInit /\ DoInit /\ RebuildInit

SpecToken == InitToken /\ [][TokenNext]_vars

\* The same, with the scheduling the runtime gives: tr.authorize() returns,
\* timers fire, a rendezvous that stays possible happens, and a select that is
\* entered again and again with expired ready takes that case in the end
SpecTokenLive ==
    /\ InitToken
    /\ [][TokenNext]_vars
    /\ WF_vars(AuthorizeReturns)
    /\ WF_vars(Started)
    /\ WF_vars(ExpiredFires)
    /\ SF_vars(SelectExpired)

\* Calls of Request[T].Do, for the results the pipeline can return
InitDo == RetryQuiet /\ ExecInit /\ RequestInit /\ BackoffQuiet /\ CacheQuiet
        /\ TokenInit /\ DoInit /\ RebuildInit

SpecDo == InitDo /\ [][DoNext]_vars

\* An executor configured on one goroutine while another sends a request
InitRebuild == RetryQuiet /\ ExecInit /\ RequestInit /\ BackoffQuiet /\ CacheQuiet
        /\ TokenInit /\ DoInit /\ RebuildInit

SpecRebuild == InitRebuild /\ [][RebuildNext]_vars

\* The same scheduling seen from the callers: a Get that waits while the
\* goroutine comes to its select again and again is served in the end (the
\* receivers of a channel are served in the order they arrived, and the select
\* picks among its ready cases at random)
SpecTokenFair ==
    /\ InitToken
    /\ [][TokenNext]_vars
    /\ WF_vars(AuthorizeReturns)
    /\ WF_vars(Started)
    /\ \A c \in Callers : SF_vars(SelectSend(c))

(***************************************************************************)
(* Properties of the pipeline composer, checked under SpecExecutor.        *)
(***************************************************************************)
Reverse(q) == [i \in 1..Len(q) |-> q[Len(q) + 1 - i]]
IsIn(e) == e.ev = "in"
IsOut(e) == e.ev = "out"
MiddlewaresOf(events) == [i \in 1..Len(events) |-> events[i].mw]
\* The middlewares in the order the request entered them, and left them
Entered == MiddlewaresOf(SelectSeq(qtrace, IsIn))
Left == MiddlewaresOf(SelectSeq(qtrace, IsOut))
\* The terminal handler ran after every middleware was entered and before any was left
TerminalInnermost ==
    /\ Len(qtrace) = 2 * Len(Entered) + 1
    /\ qtrace[Len(Entered) + 1].ev = "do"
\* The list was attached by WithMiddleware and WithMiddlewares calls (those of
\* AddCaching, WithExponentialRetry, WithLinearRetry and WithAuthorization included)
AttachedByWithMiddleware(mws) ==
    \A i \in 1..Len(mws) : mws[i].name \notin {"logger", "performance"}

ReturnedFromWait == rpc = "done" /\ ret.err.kind = "context"
\* The last decided attempt is followed by a wait for another attempt
RetryScheduled == rpc \in {"select", "wait"} \/ ReturnedFromWait
\* The last call of next(req) has been decided by shouldRetry
LastDecided == rpc \in {"select", "wait", "done"}

\* C2: one invocation of the retry middleware calls the wrapped handler at most
\* RetryCount + 1 times, and at least once by the time it returns.
C2_AtMostRetryCountPlusOne ==
    /\ calls <= rh.RetryCount + 1
    /\ (rpc = "done" => calls >= 1)

C2_Witness == rpc = "done" /\ rh.RetryCount >= 2 /\ calls = rh.RetryCount + 1

\* C3: with a context that is never cancelled and a wrapped handler that fails
\* retryably on every call, the middleware returns after exactly RetryCount + 1
\* calls, with a giving-up error and no response.
C3_ExhaustedAfterNPlusOne ==
    (rpc = "done" /\ ctx = NilErr /\ allFailed) =>
        /\ calls = rh.RetryCount + 1
        /\ ret.resp = NilResp
        /\ ret.err.kind = "givingUp"

C3_Witness ==
    /\ rpc = "done" /\ ctx = NilErr /\ allFailed
    /\ rh.RetryCount >= 2 /\ calls = rh.RetryCount + 1

\* C4 (as claimed): the attempt count in the giving-up error is the number of
\* times the wrapped handler was invoked.
C4_ReportedAttemptsAreCalls ==
    (rpc = "done" /\ ret.err.kind = "givingUp") =>
        /\ ret.err.attempts = calls
        /\ ((ctx = NilErr /\ allFailed) => ret.err.attempts = rh.RetryCount + 1)

\* C5: when shouldRetry finds the context done, no further attempt is made (at
\* most one when the context was done before the first call) and the returned
\* error wraps the context's error, whatever the attempt returned.
C5_CancelledContextStops ==
    /\ (LastDecided /\ lastCtx # NilErr) =>
            /\ rpc = "done"
            /\ ret.resp = NilResp
            /\ Wraps(ret.err, lastCtx)
    /\ (cancelAt = "start" => calls <= 1)

C5_Witness ==
    /\ rpc = "done" /\ lastCtx # NilErr /\ rh.RetryCount >= 1
    /\ lastOut.err = NilErr /\ lastOut.resp.status = 200

\* C6 (as claimed): an attempt that fails with a non-retryable transport error
\* is the last one (the only one when it is the first), and the returned error
\* preserves that transport error.
C6_NonRetryableOnceAndPreserved ==
    (LastDecided /\ NonRetryableClass(lastOut.err)) =>
        /\ rpc = "done"
        /\ calls = attempt + 1
        /\ ret.resp = NilResp
        /\ Wraps(ret.err, lastOut.err)

\* C6 (amended): an attempt that fails with a non-retryable transport error is
\* the last one (the only one when it is the first); the returned error
\* preserves that transport error when the context was not done as the outcome
\* was decided, and wraps the context's error otherwise.
C6_NonRetryableOnceAndPreservedUnlessCancelled ==
    (LastDecided /\ NonRetryableClass(lastOut.err)) =>
        /\ rpc = "done"
        /\ calls = attempt + 1
        /\ ret.resp = NilResp
        /\ Wraps(ret.err, IF lastCtx = NilErr THEN lastOut.err ELSE lastCtx)

C6_Witness ==
    /\ rpc = "done" /\ NonRetryableClass(lastOut.err) /\ lastCtx = NilErr
    /\ lastOut.err.class = "scheme"
    /\ rh.RetryCount >= 2 /\ calls = 1

\* C7: a context cancelled while the middleware is parked in the wait between
\* two attempts wakes it at once; it returns the context's error with no
\* response and does not call the wrapped handler again.
C7_CancelDuringWaitAborts ==
    cancelAt = "waiting" =>
        /\ woken = "ctx"
        /\ rpc \in {"wait", "done"}
        /\ calls = attempt + 1
        /\ (rpc = "done" => ret = [resp |-> NilResp, err |-> ctx])

C7_Witness == cancelAt = "waiting" /\ rpc = "done" /\ calls < rh.RetryCount + 1

\* C8 (as claimed): a response without transport error, decided with a live
\* context, is followed by another attempt (while attempts remain) exactly when
\* its status is 429 or a 5xx other than 501; with any other status the
\* response is returned with a nil error.
C8_RetryIffRetryableStatus ==
    (LastDecided /\ lastOut.err = NilErr /\ lastCtx = NilErr) =>
        /\ (attempt < rh.RetryCount =>
                (RetryScheduled <=> RetryableStatus(lastOut.resp.status)))
        /\ (~RetryableStatus(lastOut.resp.status) =>
                (rpc = "done" /\ ret = [resp |-> lastOut.resp, err |-> NilErr]))

\* The statuses the code asks a retry for
RetriedStatus(s) == s = 429 \/ s = 0 \/ (s >= 500 /\ s # 501)

\* C8 (amended): ... exactly when its status is 429, 0, or 500 and above other
\* than 501; with any other status the response is returned with a nil error.
C8_RetryIffRetriedStatus ==
    (LastDecided /\ lastOut.err = NilErr /\ lastCtx = NilErr) =>
        /\ (attempt < rh.RetryCount =>
                (RetryScheduled <=> RetriedStatus(lastOut.resp.status)))
        /\ (~RetriedStatus(lastOut.resp.status) =>
                (rpc = "done" /\ ret = [resp |-> lastOut.resp, err |-> NilErr]))

C8_Witness ==
    /\ rpc = "wait" /\ lastOut.err = NilErr /\ lastCtx = NilErr
    /\ lastOut.resp.status = 0

\* C9 (as claimed): the giving-up error returned after the retries are
\* exhausted wraps the cause of the last failed attempt: the transport error,
\* or the error describing the 429 or 5xx status.
C9_GivingUpWrapsLastCause ==
    (/\ rpc = "done" /\ ret.err.kind = "givingUp"
     /\ lastCtx = NilErr /\ RetryableFailure(lastOut)) =>
        ret.err.cause = IF lastOut.err # NilErr THEN lastOut.err
                        ELSE StatusError(lastOut.resp)

\* C10: a transport error outside the non-retryable classes, decided with a
\* live context while attempts remain, is followed by another attempt and is
\* not returned to the caller.
C10_OtherTransportErrorsRetried ==
    (/\ LastDecided /\ lastOut.err # NilErr /\ ~NonRetryableClass(lastOut.err)
     /\ lastCtx = NilErr /\ attempt < rh.RetryCount) =>
        /\ RetryScheduled
        /\ (rpc = "done" => ~Wraps(ret.err, lastOut.err))

C10_Witness ==
    /\ rpc = "call" /\ attempt >= 1 /\ lastCtx = NilErr
    /\ lastOut.err # NilErr /\ ~lastOut.err.isURLError /\ lastOut.err.class = "scheme"

(***************************************************************************)
(* Properties of the backoff functions, checked under SpecBackoff.         *)
(***************************************************************************)
\* The response carries the override: status 429 or 503 and a Retry-After
\* header whose first value is an integer
RetryAfterOverride(r) ==
    /\ r # NilResp
    /\ r.status \in {429, 503}
    /\ r.retryAfter.present
    /\ r.retryAfter.isInt

\* min(max, min * 2^n) for min >= 0
RECURSIVE MinOfMaxAndDoubled(_, _, _)
MinOfMaxAndDoubled(min, max, n) ==
    IF min >= max THEN max
    ELSE IF n = 0 THEN min
    ELSE MinOfMaxAndDoubled(2 * min, max, n - 1)

ExponentialReturned == bpc = "returned" /\ bfn = "exponential"
LinearReturned == bpc = "returned" /\ bfn = "linear"

\* C11: with no Retry-After override ExponentialBackoffTime returns
\* min(max, min * 2^attempt) for every attempt >= 0, a value between min and
\* max when min <= max: 500ms, 8s and 10s at attempts 0, 4 and 5 for min 500ms
\* and max 10s.
C11_ExponentialIsClampedDoubling ==
    (ExponentialReturned /\ ~RetryAfterOverride(bresp)) =>
        /\ bresult = MinOfMaxAndDoubled(bmin, bmax, bretry)
        /\ bmin <= bmax => (bmin <= bresult /\ bresult <= bmax)
        /\ (bmin = 500 /\ bmax = 10000 /\ bretry = 0) => bresult = 500
        /\ (bmin = 500 /\ bmax = 10000 /\ bretry = 4) => bresult = 8000
        /\ (bmin = 500 /\ bmax = 10000 /\ bretry = 5) => bresult = 10000

\* C12: for a 429 or 503 whose Retry-After is the integer n the result is n
\* seconds whatever attempt, min and max are; with any other status the header
\* changes nothing, the result is the one of the exponential rule.
C12_RetryAfterOverrides ==
    (ExponentialReturned /\ bresp # NilResp) =>
        /\ RetryAfterOverride(bresp) => bresult = 1000 * bresp.retryAfter.n
        /\ bresp.status \notin {429, 503} =>
              bresult \in {MinOfMaxAndDoubled(bmin, bmax, bretry), MinDuration}

\* A 503 announcing 5 seconds, on a late attempt with max at 1 second
C12_Witness ==
    /\ ExponentialReturned
    /\ RetryAfterOverride(bresp)
    /\ bresp.status = 503
    /\ bresp.retryAfter.n = 5
    /\ bretry > 4
    /\ bmax = 1000
    /\ bresult = 5000

\* C13: LinearJitterBackoffTime takes attempt 0 for attempt 1; it returns
\* min * attempt when max <= min, and (min + j) * attempt for a jitter j with
\* 0 <= j < max - min otherwise.
C13_LinearJitter ==
    LinearReturned =>
        LET n == IF bretry = 0 THEN 1 ELSE bretry
        IN  /\ bmax <= bmin => bresult = bmin * n
            /\ bmax > bmin =>
                  \E j \in 0..(bmax - bmin - 1) : bresult = (bmin + j) * n
            /\ (bmin = 1000 /\ bmax = 1000 /\ bretry = 3) => bresult = 3000

\* Attempt 0 with a jitter drawn above zero
C13_Witness ==
    /\ LinearReturned
    /\ bretry = 0
    /\ bmax > bmin
    /\ bresult > bmin
    /\ bresult < bmax

(***************************************************************************)
(* Properties of the caching middleware, checked under SpecCache.          *)
(***************************************************************************)
\* Two URLs that differ at most in letter case, in the path or in the query
FoldCase(c) == IF c \in {"a", "A"} THEN "a" ELSE c
SameUpToCase(u, v) ==
    /\ FoldCase(u.path) = FoldCase(v.path)
    /\ FoldCase(u.query) = FoldCase(v.query)

\* The lower-cased full URL, query included
NormalizedURL(u) == <<FoldCase(u.path), "?", FoldCase(u.query)>>

\* An entry that is live at time t: stored, and not more than ttl ago
LiveAt(item, t) == item # NoItem /\ t <= item.storedAt + cttl

\* The entry the request found under its normalized URL when it entered
SeenEntry == cseen[NormalizedURL(creq.URL)]

CacheEntered == cpc \in {"next", "done"}
GetEntered == CacheEntered /\ creq.Method = "GET"
GetMissed == cpc = "done" /\ creq.Method = "GET" /\ ~LiveAt(SeenEntry, cseenAt)

\* C14: a request whose method is not GET makes no c.Get and no c.Set, and
\* invokes next exactly once and returns what it returned, whatever the store
\* holds.
C14_NonGetBypassesCache ==
    (CacheEntered /\ creq.Method # "GET") =>
        /\ creads = 0
        /\ cwrites = 0
        /\ cpc = "done" => (cnextCalls = 1 /\ cret = clastOut)

\* A POST to a URL that has a live entry, answered with the handler's response
C14_Witness ==
    /\ cpc = "done"
    /\ creq.Method = "POST"
    /\ LiveAt(SeenEntry, cseenAt)
    /\ cret.err = NilErr
    /\ cret.resp # SeenEntry.Object

\* C15: a GET whose normalized URL has a live entry returns the stored
\* response with no error and does not invoke next.
C15_LiveEntryIsReturned ==
    (GetEntered /\ LiveAt(SeenEntry, cseenAt)) =>
        /\ cpc = "done"
        /\ cnextCalls = 0
        /\ cret = [resp |-> SeenEntry.Object, err |-> NilErr]

C15_Witness ==
    /\ GetEntered
    /\ LiveAt(SeenEntry, cseenAt)
    /\ cret.resp = SeenEntry.Object
    /\ cseenAt > SeenEntry.storedAt

C17_RepeatedGetServedFromCache ==
    (cpc = "done" /\ creq.Method = "GET" /\ cprevOK >= 0
        /\ cseenAt <= cprevOK + cttl) =>
        /\ cnextCalls = 0
        /\ chit # NoItem

\* C18: the key is the lower-cased full URL: an entry sits under the
\* lower-cased URL of the request that stored it, a GET is answered from the
\* live entry of any URL that differs from its own in letter case only, and
\* never from the entry of a URL whose lower-cased form differs.
C18_KeyIsLowerCasedURL ==
    /\ \A k \in CacheKeys :
          cstore[k] # NoItem => k = NormalizedURL(cstore[k].url)
    /\ GetEntered =>
          /\ \A k \in CacheKeys :
                (LiveAt(cseen[k], cseenAt) /\ SameUpToCase(cseen[k].url, creq.URL))
                    => (cpc = "done" /\ chit = cseen[k])
          /\ chit # NoItem => SameUpToCase(chit.url, creq.URL)

\* A hit on an entry stored by a request whose URL differs in case, in the
\* path and in the query
C18_Witness ==
    /\ GetEntered
    /\ chit # NoItem
    /\ chit.url.path # creq.URL.path
    /\ chit.url.query # creq.URL.query

\* C19: an entry stored at s with TTL t is not returned as a hit later than
\* s + t, swept or not.
C19_NoHitAfterTTL ==
    (cpc = "done" /\ chit # NoItem) => cseenAt <= chit.storedAt + cttl

\* A GET that finds its entry still in the store after s + t, and misses
C19_Witness ==
    /\ GetMissed
    /\ SeenEntry # NoItem
    /\ cseenAt > SeenEntry.storedAt + cttl
    /\ cnextCalls = 1

(***************************************************************************)
(* Properties of the token refresher, checked under SpecToken.             *)
(***************************************************************************)
\* The (token, error) pair the k-th authorize call returned
AuthorizedPair(k) == [Token |-> authResults[k].token, Error |-> authResults[k].err]

GetReturned(c) == gpc[c] \in {"next", "done"}

\* C20: the Gets that complete between the k-th authorize call and the next
\* return one and the same pair, the token and the error of the k-th call,
\* however many callers there are.
C20_GetsReturnPairOfLastAuthorize ==
    \A c \in Callers :
        GetReturned(c) =>
            /\ gepoch[c] \in 1..Len(authResults)
            /\ ggot[c] = AuthorizedPair(gepoch[c])
            /\ \A d \in Callers :
                  (GetReturned(d) /\ gepoch[d] = gepoch[c]) => ggot[d] = ggot[c]

\* Two callers served after the second authorize call, which failed after a
\* first that had succeeded
C20_Witness ==
    /\ \A c \in Callers : GetReturned(c) /\ gepoch[c] = 2
    /\ authResults[1].err = NilErr
    /\ authResults[2].err # NilErr
    /\ ggot[1].Error # NilErr

C22_GetReturnsLatestCompleted ==
    [][\A c \in Callers :
          (gpc[c] = "receiving" /\ gpc'[c] = "next") =>
              /\ Len(authResults) >= 1
              /\ ggot'[c] = AuthorizedPair(Len(authResults))]_vars

\* One caller holds the pair of the first call, another that of a refresh
C22_Witness ==
    \E c, d \in Callers :
        /\ GetReturned(c)
        /\ GetReturned(d)
        /\ ggot[c] = AuthorizedPair(1)
        /\ Len(authResults) >= 2
        /\ ggot[d] = AuthorizedPair(2)
        /\ ggot[d] # ggot[c]

\* C23: one refresher task: at most one authorize call runs at a time, one
\* call is made at creation and one for each firing of the timer that the
\* goroutine has received, and none for a Get.
C23_OneAuthorizePerFiring ==
    /\ authStarted - authCalls \in {0, 1}
    /\ (authStarted - authCalls = 1) <=> (trpc = "authorize")
    /\ authStarted = 1 + firings - (IF texpired = "fired" THEN 1 ELSE 0)

\* Every caller served, the first of them before the timer fired, and the
\* authorize call made for that firing still running
C23_Witness ==
    /\ \A c \in Callers : GetReturned(c)
    /\ tshort = 0
    /\ authStarted = 2
    /\ firings = 1
    /\ trpc = "authorize"

\* C24: when the pair read from the refresher carries an error, the handler
\* adds no Authorization header, calls next once and returns what it returned.
C24_ErrorPairAddsNoHeader ==
    \A c \in Callers :
        /\ (GetReturned(c) /\ ggot[c].Error # NilErr) => aheader[c] = <<>>
        /\ (gpc[c] = "done" /\ ggot[c].Error # NilErr) =>
              (anext[c] = 1 /\ aret[c] = aout[c] /\ aret[c] # NoReturn)

\* A request that went out without the header and was answered 401
C24_Witness ==
    \E c \in Callers :
        /\ gpc[c] = "done"
        /\ ggot[c].Error # NilErr
        /\ aheader[c] = <<>>
        /\ aret[c].resp.status = 401

\* The pair a failed authorize call offers, and the pair of a successful one
ErrorEpoch(k) == k \in 1..Len(authResults) /\ authResults[k].err # NilErr
SuccessEpoch(k) == k \in 1..Len(authResults) /\ authResults[k].err = NilErr

\* C25: after an authorize call that failed the refresher keeps running: the
\* Gets served from it receive the error, authorize is called again when the
\* timer has fired, and the Gets served after a later call that succeeded
\* receive its token with a nil error.
C25_RefresherSurvivesError ==
    /\ [](\A c \in Callers :
            GetReturned(c) =>
                /\ ErrorEpoch(gepoch[c]) => ggot[c].Error # NilErr
                /\ SuccessEpoch(gepoch[c]) =>
                      ggot[c] = [Token |-> authResults[gepoch[c]].token,
                                 Error |-> NilErr])
    /\ \A k \in 1..(MaxAuthorize - 1) :
          (authCalls = k /\ ErrorEpoch(k)) ~> (authStarted = k + 1)

\* A Get served the token of a successful call that followed a failed one
C25_Witness ==
    \E c \in Callers :
        /\ GetReturned(c)
        /\ gepoch[c] >= 2
        /\ ErrorEpoch(gepoch[c] - 1)
        /\ SuccessEpoch(gepoch[c])
        /\ ggot[c].Error = NilErr
        /\ aheader[c] # <<>>

(***************************************************************************)
(* Properties of the configuration methods, checked under SpecExecutor.    *)
(***************************************************************************)
\* The list holds a middleware of this kind
Has(mws, kind) == \E i \in 1..Len(mws) : mws[i].name = kind
\* The retry policies of the retry middlewares in the list
RetryPolicies(mws) ==
    {mws[i].rh : i \in {j \in 1..Len(mws) : mws[j].name = "retry"}}
\* The last configuration call left the list and the pipeline as they were
LeftAlone == middlewares = ebefore.middlewares /\ pipeline = ebefore.pipeline

\* C26: an AddCaching call on an executor whose caching was enabled by an
\* earlier AddCaching leaves the middleware list and the pipeline unchanged;
\* a WithExponentialRetry or WithLinearRetry call on an executor whose retry
\* was enabled by an earlier one of them leaves the list, the pipeline and
\* the retry policy unchanged.
C26_EnabledOnceThenNoOp ==
    /\ (ecall = "AddCaching" /\ Has(ebefore.middlewares, "caching")) => LeftAlone
    /\ (ecall \in {"WithExponentialRetry", "WithLinearRetry"}
            /\ Has(ebefore.middlewares, "retry")) =>
          (LeftAlone /\ RetryPolicies(middlewares) = RetryPolicies(ebefore.middlewares))

\* WithLinearRetry called on an executor with caching and exponential retry
C26_Witness ==
    /\ ecall = "WithLinearRetry"
    /\ Has(ebefore.middlewares, "caching")
    /\ \E h \in RetryPolicies(ebefore.middlewares) : h.Backoff = "exponential"
    /\ \A h \in RetryPolicies(middlewares) : h.Backoff = "exponential"

\* C27 (as claimed): a WithAuthorization call on an executor that already has
\* the authorization middleware leaves the list and the pipeline unchanged
\* and creates no token refresher (no authorize call, no refresher task).
C27_SecondWithAuthorizationIsNoOp ==
    (ecall = "WithAuthorization" /\ Has(ebefore.middlewares, "authorize")) =>
        (LeftAlone /\ refreshers = ebefore.refreshers)

\* C28 (as claimed): after every configuration call the pipeline is the fold
\* of the terminal handler through the whole list, and a request sent next
\* enters every middleware of the list.
C28_PipelineIsFoldAfterEveryCall ==
    /\ ecall # "none" => pipeline = Rebuild(middlewares)
    /\ qpc = "done" =>
          \A i \in 1..Len(qmws) : \E j \in 1..Len(Entered) : Entered[j] = qmws[i]

(***************************************************************************)
(* Properties of Request[T].Do, checked under SpecDo.                      *)
(***************************************************************************)
\* The pipeline returned a response with a status of 400 or above
ReturnedErrorStatus ==
    dpc = "returned" /\ dres # NilResp /\ dres.status >= 400

\* C29 (as claimed): whenever the pipeline returns a response with a status
\* of 400 or above, Do returns a nil value and an Error with that status code
\* and the response body as its cause, and the body is not decoded.
C29_ErrorStatusGivesStatusAndBody ==
    ReturnedErrorStatus =>
        /\ dvalue = NilValue
        /\ ddecodes = 0
        /\ dError = Error(dError.Message, Errorf(dres.body), dres.status)

\* C29 (amended): for such a response Do returns a nil value and an error and
\* does not decode the body; the error has the status code and the body as
\* cause when the pipeline's error is nil and the body was read to its end.
C29_ErrorStatusGivesNilValue ==
    ReturnedErrorStatus =>
        /\ dvalue = NilValue
        /\ ddecodes = 0
        /\ dError # NilErr
        /\ (derr = NilErr /\ dres.readErr = NilErr) =>
              dError = Error(dError.Message, Errorf(dres.body), dres.status)

\* A 404 with a JSON body the type could be decoded from
C29_Witness ==
    /\ ReturnedErrorStatus
    /\ dres.status = 404
    /\ derr = NilErr
    /\ dres.readErr = NilErr
    /\ IsJSON(dres.contentType)
    /\ Unmarshals(dT, dres.body)
    /\ dError.StatusCode = 404

(***************************************************************************)
(* Properties of a rebuild beside a request, checked under SpecRebuild.    *)
(***************************************************************************)
\* The request read re.pipeline when no configuration call was running
ReadAtRest == qduring = "idle"

\* A request that read re.pipeline in the middle of a rebuild went through
\* fewer middlewares than were attached: none, or a prefix of the list
PartialPipelineRead ==
    /\ qpc = "done"
    /\ ~ReadAtRest
    /\ Len(Entered) < Len(qmws)
    /\ Entered = Reverse(SubSeq(qmws, 1, Len(Entered)))

\* A request that read re.pipeline at rest went through every middleware
\* attached by WithMiddleware and WithMiddlewares calls
AtRestTraversesWithMiddlewares ==
    (qpc = "done" /\ ReadAtRest /\ AttachedByWithMiddleware(qmws)) =>
        Entered = Reverse(qmws)

\* C30 (as claimed, its second half): a request that starts when every
\* configuration call has returned goes through all attached middlewares.
C30_RequestAtRestTraversesAll ==
    (qpc = "done" /\ ReadAtRest) => Entered = Reverse(qmws)

(***************************************************************************)
(* Properties of a rebuild on the middlewares attached before it, checked  *)
(* under SpecExecutor.                                                     *)
(***************************************************************************)
IsPrefix(a, b) == Len(a) <= Len(b) /\ a = SubSeq(b, 1, Len(a))
\* The middlewares whose handlers make up a composed handler, innermost first
RECURSIVE Unfold(_)
Unfold(p) == IF p.name = "do" THEN <<>> ELSE Append(Unfold(p.next), p.mw)
CountOf(mws, kind) == Cardinality({i \in 1..Len(mws) : mws[i].name = kind})

\* C31: a configuration call leaves the middlewares attached before it in
\* place and in order, in the list and in the pipeline; the handlers of the
\* pipeline are built from the middlewares of the list themselves (the same
\* cache, the same token refresher); and a refresher is created, with its
\* task and its authorize call, only for an authorization middleware the
\* call attaches, never by the rebuild.
C31_AttachingLeavesEarlierAlone ==
    ecall # "none" =>
        /\ IsPrefix(ebefore.middlewares, middlewares)
        /\ IsPrefix(Unfold(ebefore.pipeline), Unfold(pipeline))
        /\ IsPrefix(Unfold(pipeline), middlewares)
        /\ refreshers - ebefore.refreshers =
              CountOf(middlewares, "authorize") - CountOf(ebefore.middlewares, "authorize")

\* A middleware attached to an executor with caching and authorization
C31_Witness ==
    /\ ecall = "WithMiddleware"
    /\ Has(ebefore.middlewares, "caching")
    /\ Has(ebefore.middlewares, "authorize")
    /\ Len(middlewares) = Len(ebefore.middlewares) + 1
    /\ Unfold(pipeline) = middlewares
    /\ refreshers = 1

(***************************************************************************)
(* Progress of the token refresher and of its readers.                     *)
(***************************************************************************)
\* C32: every Get that was called returns, and it returns only by receiving
\* the pair the goroutine holds while it is at its select. Checked under
\* SpecTokenFair.
C32_EveryGetReturns ==
    /\ \A c \in Callers : (gpc[c] = "receiving") ~> (gpc[c] = "next")
    /\ [][\A c \in Callers :
            (gpc[c] = "receiving" /\ gpc'[c] # "receiving") =>
                /\ trpc = "select"
                /\ gpc'[c] = "next"
                /\ ggot'[c] = [Token |-> token, Error |-> terr]]_vars

\* Two Gets that waited through a refresh and were served after it
C32_Witness ==
    /\ \A c \in Callers : GetReturned(c) /\ gepoch[c] = 2
    /\ authStarted = 2

\* C33: once the timer of the k-th authorize call has fired, the next
\* authorize call is made, whatever the readers do. Checked under
\* SpecTokenLive.
C33_FiredTimerLeadsToRefresh ==
    \A k \in 1..(MaxAuthorize - 1) :
        (authCalls = k /\ texpired = "fired") ~> (authStarted = k + 1)

\* A refresh made after the old token was handed out with the timer fired
\* (it was due from the start)
C33_Witness ==
    /\ authStarted = 2
    /\ authCalls = 1
    /\ tshort = 1
    /\ \E c \in Callers : GetReturned(c) /\ gepoch[c] = 1

\* C34 (as claimed): the refresher is guarded against a runaway loop: of the
\* authorize calls it makes, not every one is followed at once, with no delay,
\* by the next one being due.
C34_RunawayLoopIsGuarded == tshort < MaxAuthorize

\* C35: NewTokenRefresher has returned only if the first authorize call has;
\* every Get received the result of a call that had returned, at a moment
\* when no authorize call was running.
C35_NoValueBeforeOrDuringAuthorize ==
    /\ newpc = "returned" => authCalls >= 1
    /\ \A c \in Callers :
          /\ gpc[c] # "idle" => newpc = "returned"
          /\ GetReturned(c) => (gepoch[c] >= 1 /\ gstarted[c] = gepoch[c])

\* A Get waiting while the authorize call of a refresh runs, another served
\* before that refresh
C35_Witness ==
    /\ trpc = "authorize"
    /\ authStarted = 2
    /\ \E c, d \in Callers :
          /\ gpc[c] = "receiving"
          /\ GetReturned(d)
          /\ gepoch[d] = 1

\* C36 (as claimed): a WithExponentialRetry or WithLinearRetry call on an
\* executor that holds no retry middleware yet attaches the retry middleware,
\* whatever was enabled before, authorization included.
C36_AuthorizationLeavesRetryGuard ==
    (/\ ecall \in {"WithExponentialRetry", "WithLinearRetry"}
     /\ ~Has(ebefore.middlewares, "retry"))
        => Has(middlewares, "retry")

\* req.Header.Add("Authorization", ...): every authorization handler entered
\* with a successful token read appends one value to the request's header
RECURSIVE AuthorizationValues(_)
AuthorizationValues(trace) ==
    IF trace = <<>> THEN 0
    ELSE AuthorizationValues(Tail(trace))
         + (IF Head(trace).ev = "in" /\ Head(trace).mw.name = "authorize"
            THEN 1 ELSE 0)

\* C37 (as claimed): when the pipeline holds the authorization middleware and
\* the token reads succeed, the request that reaches the terminal executor
\* carries exactly one Authorization header value.
C37_OneAuthorizationValue ==
    \A i \in 1..Len(qtrace) :
        (qtrace[i].ev = "do" /\ Has(Unfold(pipeline), "authorize"))
            => AuthorizationValues(SubSeq(qtrace, 1, i)) = 1

\* C38 (as claimed): a GET answered from the cache returns a non-nil response
\* together with a nil error.
C38_CacheHitHasResponse ==
    (cpc = "done" /\ chit # NoItem)
        => (cret.resp # NilResp /\ cret.err = NilErr)

\* C39: the retry handler returns exactly one of a response and an error; a
\* nil error comes with the response of the last attempt, a non-nil error
\* with a nil response.
C39_ExactlyOneOfResponseAndError ==
    rpc = "done" =>
        /\ (ret.err = NilErr) <=> (ret.resp # NilResp)
        /\ ret.err = NilErr => ret.resp = lastOut.resp

\* RetryCount 0: the single attempt returned a retryable status and the
\* handler returned an error without the response
C39_Witness ==
    /\ rpc = "done"
    /\ rh.RetryCount = 0
    /\ calls = 1
    /\ lastOut.resp # NilResp
    /\ lastOut.resp.status = StatusServiceUnavailable
    /\ ret.resp = NilResp
    /\ ret.err # NilErr

\* C40 (as claimed): every *Error returned by Do carries a non-nil Cause, so
\* that Error() on it dereferences no nil cause.
C40_EveryErrorHasCause ==
    (dpc = "returned" /\ dError # NilErr) => dError.Cause # NilErr

====
